---- MODULE Spec2Model ----
(***************************************************************************)
(* Model of Ec2InstanceReconciler.Reconcile                                *)
(* (internal/controller/ec2instance_controller.go) for one Ec2Instance     *)
(* object, together with the store that holds the object, the cloud that   *)
(* holds the instances, the user who may request deletion, and the         *)
(* controller process that may stop in the middle of an invocation.        *)
(*                                                                         *)
(* One Reconcile invocation is a sequence of steps, one per call that      *)
(* leaves the process (r.Get, deleteEc2Instance, r.Update,                 *)
(* checkEC2InstanceExists, createEc2Instance, r.Status().Update); pc is    *)
(* the position of the invocation, "idle" between invocations.             *)
(***************************************************************************)
EXTENDS Integers, Sequences, FiniteSets, TLC

VARIABLES
    obj,          \* the Ec2Instance object as persisted in the store
    ec2Instance,  \* the invocation's in-memory copy (ec2Instance in Reconcile)
    stale,        \* the copy's resourceVersion is older than the store's
    pc,           \* position of the invocation in flight
    result,       \* (ctrl.Result, error) returned by the last invocation
    aws,          \* state of every cloud instance, by creation number
    nCreated,     \* number of successful createEc2Instance calls
    inv,          \* history: what the current/last invocation read and did
    nInv,         \* history: invocations started so far (saturating)
    createsSinceRecorded,  \* history: successful creates since an id was last persisted
    raced,        \* history: instances created by an invocation during which
                  \* the user requested deletion
    fuel          \* failures, stops and out-of-band terminations still to come
                  \* (-1: no limit)

vars == <<obj, ec2Instance, stale, pc, result, aws, nCreated, inv, nInv,
          createsSinceRecorded, raced, fuel>>

---------------------------------------------------------------------------
(* Bounds of the model *)

MaxCreates == 3      \* createEc2Instance succeeds at most this many times
MaxFinalizers == 3   \* the finalizer list is never made longer than this
MaxInv == 3          \* nInv saturates here
MaxFailures == 2     \* disturbances before the environment settles (LiveSpec)

(* Program constants *)

SteadyInterval == 30   \* RequeueAfter: 30 * time.Second
ShortDelay == 1        \* RequeueAfter: 1 * time.Second

Finalizer == "ec2instance.compute.cloud.com"

---------------------------------------------------------------------------
(* Data *)

EmptyStatus ==
    [InstanceID |-> "", State |-> "", PublicIP |-> "", PrivateIP |-> "",
     PublicDNS |-> "", PrivateDNS |-> ""]

\* A freshly applied object: spec only, no finalizer, empty status.
FreshObject ==
    [exists |-> TRUE, deleting |-> FALSE, finalizers |-> <<>>,
     status |-> EmptyStatus]

\* The zero value of computev1.Ec2Instance{} (line 55).
ZeroInstance ==
    [deleting |-> FALSE, finalizers |-> <<>>, status |-> EmptyStatus]

\* ctrl.Result{} together with the returned error.
Directive(requeue, after, err) ==
    [Requeue |-> requeue, RequeueAfter |-> after, err |-> err]

NoResult == Directive(FALSE, 0, FALSE)

\* States the cloud reports for an instance; "absent" is this model's mark
\* for an id the cloud does not know (describe: not found).
LiveStates == {"pending", "running", "stopped"}
AwsStates == LiveStates \cup {"terminated", "absent"}

InstanceIdOf(n) == "i-" \o ToString(n)

\* The creation numbers whose id is `id` (empty for "" and unknown ids).
InstancesOf(id) == {n \in 1..MaxCreates : InstanceIdOf(n) = id}

EmptyInv ==
    [n |-> 0, done |-> FALSE, getErr |-> FALSE, notFound |-> FALSE,
     readDeleting |-> FALSE, readStatus |-> EmptyStatus, readFinalizers |-> <<>>,
     calledTerminate |-> FALSE, terminateOk |-> FALSE,
     calledDescribe |-> FALSE, descErr |-> FALSE, descExists |-> FALSE,
     descState |-> "",
     calledCreate |-> FALSE, createOk |-> FALSE, createdId |-> "",
     updateFailed |-> FALSE,
     wroteObject |-> FALSE, wroteStatus |-> FALSE]

Init ==
    /\ obj = FreshObject
    /\ ec2Instance = ZeroInstance
    /\ stale = FALSE
    /\ pc = "idle"
    /\ result = NoResult
    /\ aws = [n \in 1..MaxCreates |-> "absent"]
    /\ nCreated = 0
    /\ inv = EmptyInv
    /\ nInv = 0
    /\ createsSinceRecorded = 0
    /\ raced = {}
    /\ fuel = -1

---------------------------------------------------------------------------
(* The decisions and assignments of Reconcile *)

\* Faulty variant: a missing object is reported like any other read error.
IsNotFound_Never(kind) == FALSE

\* errors.IsNotFound(err), on the kind of error r.Get returned.
IsNotFound(kind) == kind = "NotFound"

\* Faulty variant: the deletion timestamp is never looked at.
IsBeingDeleted_Never(o) == FALSE

\* !ec2Instance.DeletionTimestamp.IsZero()
IsBeingDeleted(o) == o.deleting

\* Faulty variant: the recorded id is never looked at.
HasInstanceID_Never(o) == FALSE

\* ec2Instance.Status.InstanceID != ""
HasInstanceID(o) == o.status.InstanceID # ""

\* Faulty variant: the error of deleteEc2Instance is ignored.
DeleteFailed_Ignored(err) == FALSE

\* `if err != nil` after deleteEc2Instance.
DeleteFailed(err) == err

\* controllerutil.RemoveFinalizer: every occurrence of the token goes.
RemoveFinalizer(fs) == SelectSeq(fs, LAMBDA f : f # Finalizer)

\* Faulty variant: the error of checkEC2InstanceExists is ignored.
DescribeFailed_Ignored(err) == FALSE

\* `if err != nil` after checkEC2InstanceExists.
DescribeFailed(err) == err

\* !exists || string(awsInstance.State.Name) == "terminated"
IsDrift(exists, awsState) == (~exists) \/ awsState = "terminated"

\* Faulty variant: the drift reset also clears the addresses.
DriftResetStatus_ClearsAddresses(st) ==
    [st EXCEPT !.InstanceID = "", !.State = "Terminated",
               !.PublicIP = "", !.PrivateIP = "", !.PublicDNS = "", !.PrivateDNS = ""]

\* Faulty variant: the drift reset forgets to clear the id.
DriftResetStatus_KeepsId(st) == [st EXCEPT !.State = "Terminated"]

\* ec2Instance.Status.InstanceID = ""; ec2Instance.Status.State = "Terminated"
DriftResetStatus(st) == [st EXCEPT !.InstanceID = "", !.State = "Terminated"]

\* Faulty variant: the status is rewritten on every verification.
NeedsSync_Always(st, awsState) == TRUE

\* ec2Instance.Status.State != string(awsInstance.State.Name)
NeedsSync(st, awsState) == st.State # awsState

\* Faulty variant: the reported state is not copied.
SyncStatus_Dropped(st, awsState) == st

\* ec2Instance.Status.State = string(awsInstance.State.Name)
SyncStatus(st, awsState) == [st EXCEPT !.State = awsState]

\* Faulty variant: the finalizer is not appended.
AppendFinalizer_Forgotten(fs) == fs

\* ec2Instance.Finalizers = append(ec2Instance.Finalizers, "ec2instance.compute.cloud.com")
AppendFinalizer(fs) == Append(fs, Finalizer)

\* Faulty variant: Reconcile returns after the finalizer write, whatever
\* its outcome.
AddFinalizerFailed_Always(err) == TRUE

\* Faulty variant: the error of the finalizer write is ignored.
AddFinalizerFailed_Ignored(err) == FALSE

\* `if err != nil` after the r.Update that persists the appended finalizer:
\* TRUE is the early return, FALSE continues to createEc2Instance.
AddFinalizerFailed(err) == err

\* Faulty variant: the public address is not copied.
CreatedStatus_NoPublicIP(st, info) ==
    [st EXCEPT !.InstanceID = info.InstanceID, !.State = info.State,
               !.PrivateIP = info.PrivateIP,
               !.PublicDNS = info.PublicDNS, !.PrivateDNS = info.PrivateDNS]

\* The six assignments from createdInstanceInfo.
CreatedStatus(st, info) ==
    [st EXCEPT !.InstanceID = info.InstanceID, !.State = info.State,
               !.PublicIP = info.PublicIP, !.PrivateIP = info.PrivateIP,
               !.PublicDNS = info.PublicDNS, !.PrivateDNS = info.PrivateDNS]

(* The values Reconcile returns *)

DoneResult == Directive(FALSE, 0, FALSE)             \* ctrl.Result{}, nil
\* Faulty variant: the error is logged and swallowed.
ErrorResult_Swallowed == Directive(FALSE, 0, FALSE)
ErrorResult == Directive(FALSE, 0, TRUE)             \* ctrl.Result{}, err
RequeueErrorResult == Directive(TRUE, 0, TRUE)       \* ctrl.Result{Requeue: true}, err
RequeueNowResult == Directive(TRUE, 0, FALSE)        \* ctrl.Result{Requeue: true}, nil
\* Faulty variant: verification requeues after the short delay.
SteadyResult_Short == Directive(FALSE, ShortDelay, FALSE)
SteadyResult == Directive(FALSE, SteadyInterval, FALSE)  \* RequeueAfter: 30s
CreatedResult == Directive(FALSE, ShortDelay, FALSE)     \* RequeueAfter: 1s

---------------------------------------------------------------------------
(* The collaborators *)

\* createEc2Instance: what the cloud hands back for its n-th instance.
CreatedInstanceInfo(n) ==
    [InstanceID |-> InstanceIdOf(n), State |-> "pending",
     PublicIP |-> "pub-ip-" \o ToString(n), PrivateIP |-> "priv-ip-" \o ToString(n),
     PublicDNS |-> "pub-dns-" \o ToString(n), PrivateDNS |-> "priv-dns-" \o ToString(n)]

\* deleteEc2Instance, on success: the instance named by id is terminated;
\* an id the cloud does not hold changes nothing.
Terminated(cloud, id) ==
    [n \in DOMAIN cloud |->
        IF n \in InstancesOf(id) /\ cloud[n] \in LiveStates
        THEN "terminated" ELSE cloud[n]]

\* checkEC2InstanceExists, on success: (exists, state) for id.
DescribeExists(cloud, id) == \E n \in InstancesOf(id) : cloud[n] # "absent"
DescribeState(cloud, id) ==
    IF DescribeExists(cloud, id)
    THEN cloud[CHOOSE n \in InstancesOf(id) : TRUE] ELSE ""

\* The outcomes a call to the store or to the provider can have (err = TRUE:
\* it returns an error), and what a failure costs.  With fuel = -1 any call
\* may fail at any time; with fuel >= 0 at most that many more disturbances
\* happen, after which every call succeeds ("eventually succeed").
Outcomes == IF fuel = 0 THEN {FALSE} ELSE BOOLEAN
Spend(err) == IF err /\ fuel > 0 THEN fuel - 1 ELSE fuel

\* r.Update / r.Status().Update are refused when the copy is stale
\* (conflict) or the object is gone (not found); otherwise they may still
\* fail (err chosen by the environment).
WriteFails(err) == err \/ stale \/ ~obj.exists

\* r.Update(ctx, o): persists the metadata (finalizers), not the status;
\* an object whose deletion is requested and whose last finalizer goes is
\* erased by the store.
StoreAfterUpdate(o) ==
    [obj EXCEPT !.finalizers = o.finalizers,
                !.exists = ~(obj.deleting /\ o.finalizers = <<>>)]

\* r.Status().Update(ctx, o): persists the status only.
StoreAfterStatusUpdate(o) == [obj EXCEPT !.status = o.status]

\* What the client leaves in the in-memory copy after a successful write:
\* the object as the store now holds it.
CopyOf(o) == [deleting |-> o.deleting, finalizers |-> o.finalizers,
              status |-> o.status]

---------------------------------------------------------------------------
(* Reconcile, step by step *)

\* A return statement: the invocation ends with directive res and history h.
Return(res, h) ==
    /\ pc' = "idle"
    /\ result' = res
    /\ inv' = [h EXCEPT !.done = TRUE]
    /\ ec2Instance' = ZeroInstance
    /\ stale' = FALSE

\* Where Reconcile goes after a successful r.Get (lines 66, 95, 132).
Branch(o) ==
    IF IsBeingDeleted(o) THEN "delete"
    ELSE IF HasInstanceID(o) THEN "check"
    ELSE "addFinalizer"

\* Lines 55-63 and the branching on what was read.
Get ==
    /\ pc = "idle"
    /\ nInv' = IF nInv < MaxInv THEN nInv + 1 ELSE nInv
    /\ \E err \in Outcomes :
        /\ fuel' = Spend(err)
        /\ LET h == [EmptyInv EXCEPT !.n = nInv']
               kind == IF err THEN "Other" ELSE "NotFound"
           IN
           IF err \/ ~obj.exists               \* r.Get returned an error
           THEN IF IsNotFound(kind)
                THEN Return(DoneResult, [h EXCEPT !.notFound = ~err, !.getErr = err])
                ELSE Return(ErrorResult, [h EXCEPT !.notFound = ~err, !.getErr = err])
           ELSE /\ ec2Instance' = CopyOf(obj)
                /\ stale' = FALSE
                /\ inv' = [h EXCEPT !.readDeleting = obj.deleting,
                                    !.readStatus = obj.status,
                                    !.readFinalizers = obj.finalizers]
                /\ pc' = Branch(CopyOf(obj))
                /\ UNCHANGED result
    /\ UNCHANGED <<obj, aws, nCreated, createsSinceRecorded>>
    /\ UNCHANGED raced

\* Lines 68-72: deleteEc2Instance and the check of its error.
Delete ==
    /\ pc = "delete"
    /\ \E err \in Outcomes :
        /\ fuel' = Spend(err)
        /\ LET h == [inv EXCEPT !.calledTerminate = TRUE, !.terminateOk = ~err] IN
           /\ aws' = IF err THEN aws
                     ELSE Terminated(aws, ec2Instance.status.InstanceID)
           /\ IF DeleteFailed(err)
              THEN Return(RequeueErrorResult, h)
              ELSE /\ pc' = "removeFinalizer"
                   /\ inv' = h
                   /\ UNCHANGED <<ec2Instance, stale, result>>
    /\ UNCHANGED <<obj, nCreated, nInv, createsSinceRecorded>>
    /\ UNCHANGED raced

\* Lines 75-81: RemoveFinalizer, r.Update, return.
RemoveFinalizerAndUpdate ==
    /\ pc = "removeFinalizer"
    /\ \E err \in Outcomes :
        /\ fuel' = Spend(err)
        /\ LET o == [ec2Instance EXCEPT !.finalizers = RemoveFinalizer(@)] IN
           IF WriteFails(err)
           THEN /\ Return(RequeueErrorResult, [inv EXCEPT !.updateFailed = TRUE])
                /\ UNCHANGED obj
           ELSE /\ obj' = StoreAfterUpdate(o)
                /\ Return(DoneResult, [inv EXCEPT !.wroteObject = TRUE])
    /\ UNCHANGED <<aws, nCreated, nInv, createsSinceRecorded>>
    /\ UNCHANGED raced

\* Lines 97-129 up to the first store write: checkEC2InstanceExists and the
\* three-way decision on its answer.
Check ==
    /\ pc = "check"
    /\ \E err \in Outcomes :
        /\ fuel' = Spend(err)
        /\ LET id == ec2Instance.status.InstanceID
               \* on an error the results are the zero values
               exists == (~err) /\ DescribeExists(aws, id)
               awsState == IF err THEN "" ELSE DescribeState(aws, id)
               h == [inv EXCEPT !.calledDescribe = TRUE, !.descErr = err,
                                !.descExists = exists,
                                !.descState = awsState]
           IN
           IF DescribeFailed(err)
           THEN Return(ErrorResult, h)
           ELSE IF IsDrift(exists, awsState)
           THEN /\ ec2Instance' = [ec2Instance EXCEPT !.status = DriftResetStatus(@)]
                /\ pc' = "resetStatus"
                /\ inv' = h
                /\ UNCHANGED <<stale, result>>
           ELSE IF NeedsSync(ec2Instance.status, awsState)
           THEN /\ ec2Instance' = [ec2Instance EXCEPT !.status = SyncStatus(@, awsState)]
                /\ pc' = "syncStatus"
                /\ inv' = h
                /\ UNCHANGED <<stale, result>>
           ELSE Return(SteadyResult, h)
    /\ UNCHANGED <<obj, aws, nCreated, nInv, createsSinceRecorded>>
    /\ UNCHANGED raced

\* Lines 111-116: persist the drift reset, requeue at once.
ResetStatus ==
    /\ pc = "resetStatus"
    /\ \E err \in Outcomes :
        /\ fuel' = Spend(err)
        /\ IF WriteFails(err)
           THEN /\ Return(ErrorResult, inv)
                /\ UNCHANGED obj
           ELSE /\ obj' = StoreAfterStatusUpdate(ec2Instance)
                /\ Return(RequeueNowResult, [inv EXCEPT !.wroteStatus = TRUE])
    /\ UNCHANGED <<aws, nCreated, nInv, createsSinceRecorded>>
    /\ UNCHANGED raced

\* Lines 123-129: persist the synced state, then the common return.
SyncStatusUpdate ==
    /\ pc = "syncStatus"
    /\ \E err \in Outcomes :
        /\ fuel' = Spend(err)
        /\ IF WriteFails(err)
           THEN /\ Return(ErrorResult, inv)
                /\ UNCHANGED obj
           ELSE /\ obj' = StoreAfterStatusUpdate(ec2Instance)
                /\ Return(SteadyResult, [inv EXCEPT !.wroteStatus = TRUE])
    /\ UNCHANGED <<aws, nCreated, nInv, createsSinceRecorded>>
    /\ UNCHANGED raced

\* Lines 135-141: append the finalizer, r.Update, and go on to create.
AddFinalizer ==
    /\ pc = "addFinalizer"
    /\ \E err \in Outcomes :
        /\ fuel' = Spend(err)
        /\ LET o == [ec2Instance EXCEPT !.finalizers = AppendFinalizer(@)]
               failed == WriteFails(err) \/ Len(o.finalizers) > MaxFinalizers
               h == [inv EXCEPT !.wroteObject = ~failed, !.updateFailed = failed]
           IN
           /\ obj' = IF failed THEN obj ELSE StoreAfterUpdate(o)
           /\ IF AddFinalizerFailed(failed)
              THEN Return(RequeueErrorResult, h)
              ELSE /\ ec2Instance' = IF failed THEN o ELSE CopyOf(obj')
                   /\ pc' = "create"
                   /\ inv' = h
                   /\ UNCHANGED <<stale, result>>
    /\ UNCHANGED <<aws, nCreated, nInv, createsSinceRecorded>>
    /\ UNCHANGED raced

\* Lines 147-162: createEc2Instance and the copy of its result into the status.
Create ==
    /\ pc = "create"
    /\ \E err \in Outcomes :
        /\ fuel' = Spend(err)
        /\ LET failed == err \/ nCreated >= MaxCreates
               n == nCreated + 1
               h == [inv EXCEPT !.calledCreate = TRUE, !.createOk = ~failed,
                                !.createdId = IF failed THEN "" ELSE InstanceIdOf(n)]
           IN
           IF failed
           THEN /\ Return(ErrorResult, h)
                /\ UNCHANGED <<aws, nCreated, createsSinceRecorded, raced>>
           ELSE /\ nCreated' = n
                /\ aws' = [aws EXCEPT ![n] = CreatedInstanceInfo(n).State]
                /\ createsSinceRecorded' = createsSinceRecorded + 1
                /\ raced' = IF obj.deleting THEN raced \cup {n} ELSE raced
                /\ ec2Instance' = [ec2Instance EXCEPT
                       !.status = CreatedStatus(@, CreatedInstanceInfo(n))]
                /\ pc' = "updateStatus"
                /\ inv' = h
                /\ UNCHANGED <<stale, result>>
    /\ UNCHANGED <<obj, nInv>>

\* Lines 164-171: persist the new status, requeue shortly.
UpdateStatus ==
    /\ pc = "updateStatus"
    /\ \E err \in Outcomes :
        /\ fuel' = Spend(err)
        /\ IF WriteFails(err)
           THEN /\ Return(ErrorResult, inv)
                /\ UNCHANGED <<obj, createsSinceRecorded>>
           ELSE /\ obj' = StoreAfterStatusUpdate(ec2Instance)
                /\ createsSinceRecorded' = 0
                /\ Return(CreatedResult, [inv EXCEPT !.wroteStatus = TRUE])
    /\ UNCHANGED <<aws, nCreated, nInv>>
    /\ UNCHANGED raced

---------------------------------------------------------------------------
(* The environment *)

\* The user deletes the object: the store sets the deletion timestamp, or
\* erases the object at once when it carries no finalizer.  Any copy read
\* before is now stale.
UserDelete ==
    /\ obj.exists /\ ~obj.deleting
    /\ obj' = IF obj.finalizers = <<>>
              THEN [obj EXCEPT !.exists = FALSE]
              ELSE [obj EXCEPT !.deleting = TRUE]
    /\ stale' = (pc # "idle")
    /\ raced' = IF pc = "updateStatus" THEN raced \cup {nCreated} ELSE raced
    /\ UNCHANGED <<ec2Instance, pc, result, aws, nCreated, inv, nInv,
                   createsSinceRecorded, fuel>>

\* The cloud moves an instance on its own: pending -> running -> stopped.
AwsProgress ==
    /\ \E n \in DOMAIN aws :
        /\ aws[n] \in {"pending", "running"}
        /\ aws' = [aws EXCEPT ![n] = IF aws[n] = "pending" THEN "running"
                                     ELSE "stopped"]
    /\ UNCHANGED <<obj, ec2Instance, stale, pc, result, nCreated, inv, nInv,
                   createsSinceRecorded, fuel>>
    /\ UNCHANGED raced

\* Out-of-band removal: a live instance is terminated, and a terminated one
\* is eventually forgotten by the cloud.
AwsRemove ==
    /\ \E n \in DOMAIN aws :
        /\ aws[n] \in LiveStates \cup {"terminated"}
        /\ aws[n] \in LiveStates => fuel # 0
        /\ aws' = [aws EXCEPT ![n] = IF aws[n] = "terminated" THEN "absent"
                                     ELSE "terminated"]
        /\ fuel' = Spend(aws[n] \in LiveStates)
    /\ UNCHANGED <<obj, ec2Instance, stale, pc, result, nCreated, inv, nInv,
                   createsSinceRecorded>>
    /\ UNCHANGED raced

\* The controller process stops in the middle of an invocation; nothing of
\* the invocation survives but what it had already written.
Crash ==
    /\ pc # "idle"
    /\ fuel # 0
    /\ fuel' = Spend(TRUE)
    /\ pc' = "idle"
    /\ ec2Instance' = ZeroInstance
    /\ stale' = FALSE
    /\ UNCHANGED <<obj, result, aws, nCreated, inv, nInv, createsSinceRecorded>>
    /\ UNCHANGED raced

Next ==
    \/ Get
    \/ Delete
    \/ RemoveFinalizerAndUpdate
    \/ Check
    \/ ResetStatus
    \/ SyncStatusUpdate
    \/ AddFinalizer
    \/ Create
    \/ UpdateStatus
    \/ UserDelete
    \/ AwsProgress
    \/ AwsRemove
    \/ Crash

Spec == Init /\ [][Next]_vars

(* The same system with its scheduling stated: at most MaxFailures
   disturbances (failed calls, process stops, out-of-band terminations)
   happen in all; an invocation in flight moves on (every call returns);
   and the work queue starts a new invocation whenever the last one asked
   for it (an error, Requeue or RequeueAfter), did not finish (the restarted
   controller lists every object again), or none has run yet (the event of
   the object's creation).  After ctrl.Result{}, nil nothing is promised. *)
LiveInit ==
    /\ obj = FreshObject
    /\ ec2Instance = ZeroInstance
    /\ stale = FALSE
    /\ pc = "idle"
    /\ result = NoResult
    /\ aws = [n \in 1..MaxCreates |-> "absent"]
    /\ nCreated = 0
    /\ inv = EmptyInv
    /\ nInv = 0
    /\ createsSinceRecorded = 0
    /\ raced = {}
    /\ fuel = MaxFailures

Wanted == nInv = 0 \/ ~inv.done \/ result # DoneResult

InFlight ==
    \/ Delete
    \/ RemoveFinalizerAndUpdate
    \/ Check
    \/ ResetStatus
    \/ SyncStatusUpdate
    \/ AddFinalizer
    \/ Create
    \/ UpdateStatus

LiveSpec ==
    /\ LiveInit /\ [][Next]_vars
    /\ WF_vars(Get /\ Wanted)
    /\ WF_vars(InFlight)

---------------------------------------------------------------------------
(* Vocabulary of the properties *)

HasFinalizer(fs) == \E i \in 1..Len(fs) : fs[i] = Finalizer

\* The invocation recorded in h read a non-deleting object with an id,
\* and describe answered without error.
Verified(h) ==
    /\ ~h.readDeleting
    /\ h.readStatus.InstanceID # ""
    /\ h.calledDescribe /\ ~h.descErr

\* ... and the answer was "not found" or "terminated".
SawDrift(h) ==
    Verified(h) /\ ((~h.descExists) \/ h.descState = "terminated")

\* ... and the answer was an existing instance in the stored state.
SawSteady(h) ==
    /\ Verified(h) /\ h.descExists /\ h.descState # "terminated"
    /\ h.descState = h.readStatus.State

\* ... and the answer was an existing instance in another state.
SawChange(h) ==
    /\ Verified(h) /\ h.descExists /\ h.descState # "terminated"
    /\ h.descState # h.readStatus.State

---------------------------------------------------------------------------
(* C1: whenever the persisted object carries a non-empty Status.InstanceID,
   it carries the finalizer "ec2instance.compute.cloud.com", whatever mix of
   store-write failures, provider failures and process stops came before. *)
C1_IdImpliesFinalizer ==
    (obj.exists /\ obj.status.InstanceID # "") => HasFinalizer(obj.finalizers)

\* After a drift reset the object was provisioned again: the second id is
\* recorded and the finalizer is on the object.
C1_Witness ==
    /\ obj.exists /\ obj.status.InstanceID = InstanceIdOf(2)
    /\ inv.done /\ inv.wroteStatus /\ inv.createOk
    /\ HasFinalizer(obj.finalizers)

(* C2: in the Deleting state the finalizer leaves the persisted object only
   in the step after a terminate that succeeded in the same invocation; an
   invocation whose terminate failed returns Requeue with an error, has
   written nothing, and leaves the finalizers as it read them. *)
C2_FinalizerRemovedOnlyAfterTerminate ==
    /\ [][(HasFinalizer(obj.finalizers) /\ ~HasFinalizer(obj'.finalizers))
            => (pc = "removeFinalizer" /\ inv.readDeleting
                /\ inv.calledTerminate /\ inv.terminateOk)]_vars
    /\ []((inv.done /\ inv.calledTerminate /\ ~inv.terminateOk)
            => /\ result = RequeueErrorResult
               /\ ~inv.wroteObject /\ ~inv.wroteStatus
               /\ obj.exists /\ obj.finalizers = inv.readFinalizers
               /\ HasFinalizer(obj.finalizers))

\* Deletion was requested for an object with a recorded id, and the
\* terminate of this invocation has just failed.
C2_Witness ==
    /\ obj.exists /\ obj.deleting /\ obj.status.InstanceID # ""
    /\ inv.done /\ inv.readDeleting /\ inv.calledTerminate /\ ~inv.terminateOk
    /\ result = RequeueErrorResult /\ HasFinalizer(obj.finalizers)

(* C3: create is called only by an invocation that read an empty
   InstanceID and no deletion request, and at the moment of the call the
   persisted InstanceID is empty: after an id is persisted there is no
   create until a drift reset has persisted the empty id again. *)
C3_CreateOnlyWhileIdEmpty ==
    [][(inv'.calledCreate /\ ~inv.calledCreate)
        => /\ inv.readStatus.InstanceID = "" /\ ~inv.readDeleting
           /\ obj.status.InstanceID = ""]_vars

\* A second create, called after a drift reset was persisted.
C3_Witness ==
    /\ inv.calledCreate /\ inv.createOk /\ nCreated = 2
    /\ inv.readStatus.State = "Terminated"
    /\ obj.status.InstanceID = ""

(* C4: between two moments at which an id is persisted, create succeeds at
   most once: a create whose status write was lost is not followed by a
   second successful create. *)
C4_AtMostOneCreatePerEmptyPeriod ==
    createsSinceRecorded <= 1

(* C5: an invocation that read the object with deletion requested calls
   neither create nor describe and writes no status; it is only ever at the
   terminate step or the finalizer-removal step, and none of its steps
   changes the persisted status or creates an instance. *)
C5_DeletingOnlyTerminates ==
    /\ [](inv.readDeleting
            => /\ ~inv.calledCreate /\ ~inv.calledDescribe /\ ~inv.wroteStatus
               /\ pc \in {"idle", "delete", "removeFinalizer"})
    /\ [][(pc # "idle" /\ inv.readDeleting)
            => (obj'.status = obj.status /\ nCreated' = nCreated)]_vars

\* A deleting invocation ran to its end and removed the finalizer.
C5_Witness ==
    /\ inv.done /\ inv.readDeleting /\ inv.calledTerminate /\ inv.wroteObject
    /\ ~obj.exists /\ inv.readStatus.InstanceID # ""

(* C6: an invocation that saw drift (describe: not found, or "terminated")
   and persisted its reset leaves InstanceID = "" and State = "terminated"
   in the store and returns an immediate requeue without error. *)
C6_DriftResetPersistsTerminated ==
    (inv.done /\ SawDrift(inv) /\ inv.wroteStatus)
        => /\ obj.status.InstanceID = ""
           /\ obj.status.State = "terminated"
           /\ result = RequeueNowResult

(* C7: steady state.  An invocation that read a non-deleting object with an
   id and was told by describe that the instance exists in the stored,
   non-terminated state writes nothing, calls neither create nor terminate
   and returns RequeueAfter 30; the step that ends it leaves the persisted
   object as it was. *)
C7_SteadyStateWritesNothing ==
    /\ []((inv.done /\ SawSteady(inv))
            => /\ ~inv.wroteStatus /\ ~inv.wroteObject
               /\ ~inv.calledCreate /\ ~inv.calledTerminate
               /\ result = Directive(FALSE, 30, FALSE))
    /\ [][(pc # "idle" /\ inv'.done /\ SawSteady(inv')) => obj' = obj]_vars

\* Two steady invocations in a row on a running instance.
C7_Witness ==
    /\ inv.done /\ SawSteady(inv) /\ inv.descState = "running"
    /\ result = SteadyResult /\ nInv >= 3

(* C8: state sync.  An invocation that read a non-deleting object with an
   id, was told by describe that the instance exists in a non-terminated
   state other than the stored one, and persisted its status, leaves the
   persisted State equal to the reported state and the InstanceID as read. *)
C8_SyncPersistsReportedState ==
    (inv.done /\ SawChange(inv) /\ inv.wroteStatus)
        => /\ obj.status.State = inv.descState
           /\ obj.status.InstanceID = inv.readStatus.InstanceID

\* Stored "pending", reported "running", persisted "running".
C8_Witness ==
    /\ inv.done /\ SawChange(inv) /\ inv.wroteStatus
    /\ inv.readStatus.State = "pending" /\ inv.descState = "running"
    /\ obj.status.State = "running"

(* C9 as claimed: the invocation that persists a changed State returns the
   short delay (RequeueAfter 1). *)
C9_SyncRequeuesShortly ==
    (inv.done /\ SawChange(inv) /\ inv.wroteStatus)
        => result = Directive(FALSE, ShortDelay, FALSE)

(* C9 amended: the invocation that persists a changed State returns the
   steady-state interval (RequeueAfter 30), the same directive as an
   invocation that found nothing to change. *)
C9_SyncRequeuesAtSteadyInterval ==
    (inv.done /\ SawChange(inv) /\ inv.wroteStatus)
        => result = Directive(FALSE, SteadyInterval, FALSE)

\* A changed state was persisted and the invocation has returned.
C9_Witness ==
    /\ inv.done /\ SawChange(inv) /\ inv.wroteStatus
    /\ result.RequeueAfter = SteadyInterval /\ ~result.err

(* C10 as claimed: the first invocation on a fresh object does not call
   create. *)
C10_FirstReconcileDoesNotCreate ==
    (inv.n = 1 /\ inv.readFinalizers = <<>> /\ inv.readStatus = EmptyStatus)
        => ~inv.calledCreate

(* C10 amended: the first invocation on a fresh object attaches the
   finalizer and persists it, and when that write succeeds it goes on to
   call create in the same invocation. *)
C10_FirstReconcileCreatesAfterFinalizer ==
    (inv.n = 1 /\ inv.readFinalizers = <<>> /\ inv.readStatus = EmptyStatus
     /\ inv.wroteObject)
        => /\ pc \in {"idle", "create", "updateStatus"}
           /\ (pc = "updateStatus" => inv.calledCreate /\ inv.createOk)
           /\ (inv.done => inv.calledCreate)

\* The first invocation persisted the finalizer, created and recorded i-1.
C10_Witness ==
    /\ inv.n = 1 /\ inv.done /\ inv.wroteObject /\ inv.calledCreate
    /\ inv.createOk /\ inv.wroteStatus
    /\ obj.status.InstanceID = InstanceIdOf(1)
    /\ result = CreatedResult

---------------------------------------------------------------------------
(* C11: eventual consistency.  Under LiveSpec (serialized invocations,
   weakly fair re-invocation as the returned directives ask, calls that
   eventually succeed): (a) if deletion is never requested, the object
   eventually holds, and from then on keeps, a non-empty InstanceID whose
   State is the state the provider reports for it; (b) once deletion is
   requested, the finalizer is eventually removed (the store erases the
   object), which by C2 happens only after a successful terminate. *)
Synced ==
    /\ obj.exists /\ obj.status.InstanceID # ""
    /\ DescribeExists(aws, obj.status.InstanceID)
    /\ obj.status.State = DescribeState(aws, obj.status.InstanceID)

C11_EventuallyConsistent ==
    /\ ([](obj.exists /\ ~obj.deleting)) => <>[]Synced
    /\ (obj.exists /\ obj.deleting) ~> (~obj.exists)

\* After every disturbance the environment had, deletion was requested
\* for a provisioned object and the object is gone after a successful
\* terminate.
C11_Witness ==
    /\ ~obj.exists /\ fuel = 0 /\ nCreated >= 1
    /\ inv.done /\ inv.readDeleting /\ inv.terminateOk /\ inv.wroteObject
    /\ inv.readStatus.InstanceID # ""

(* C12: creation failure.  An invocation whose create returned an error
   returns an error, has written no status field (the persisted status is the
   one it read, with an empty InstanceID), and the finalizer it persisted
   before the call is still on the object, so that a next invocation on the
   object, unless deletion was requested meanwhile, provisions again. *)
C12_CreateFailureLeavesStatus ==
    (inv.done /\ inv.calledCreate /\ ~inv.createOk)
        => /\ result.err
           /\ ~inv.wroteStatus
           /\ obj.status = inv.readStatus /\ obj.status.InstanceID = ""
           /\ inv.wroteObject /\ obj.exists /\ HasFinalizer(obj.finalizers)
           /\ (~obj.deleting => Branch(CopyOf(obj)) = "addFinalizer")

\* A create has just failed and the object waits to be provisioned again.
C12_Witness ==
    /\ inv.done /\ inv.calledCreate /\ ~inv.createOk /\ result = ErrorResult
    /\ obj.exists /\ ~obj.deleting /\ HasFinalizer(obj.finalizers)
    /\ obj.status.InstanceID = ""

(* C13: a failed finalizer write stops the invocation.  When the r.Update
   that persists the appended finalizer fails, Reconcile returns Requeue
   with the error and does not call create; when the r.Update that persists
   the removal fails, Reconcile returns Requeue with the error and the
   persisted object still carries the finalizer.  In both cases the
   persisted finalizers are the ones the invocation read. *)
C13_FinalizerWriteFailureStops ==
    inv.updateFailed
        => /\ pc = "idle" /\ inv.done
           /\ result = RequeueErrorResult
           /\ ~inv.calledCreate /\ ~inv.wroteObject /\ ~inv.wroteStatus
           /\ obj.finalizers = inv.readFinalizers
           /\ (inv.readDeleting => (obj.exists /\ HasFinalizer(obj.finalizers)))

\* The removal of the finalizer failed to persist after a good terminate.
C13_Witness ==
    /\ inv.done /\ inv.updateFailed /\ inv.readDeleting /\ inv.terminateOk
    /\ obj.exists /\ HasFinalizer(obj.finalizers)

(* C14: the status is written only after a successful provider response.
   An invocation writes the status only if its describe or its create
   succeeded; and an invocation in which a provider call (describe, create
   or terminate) failed returns an error and leaves every status field as
   it read it. *)
ProviderCallFailed(h) ==
    \/ (h.calledDescribe /\ h.descErr)
    \/ (h.calledCreate /\ ~h.createOk)
    \/ (h.calledTerminate /\ ~h.terminateOk)

C14_StatusOnlyAfterProviderSuccess ==
    /\ inv.wroteStatus => ((inv.calledDescribe /\ ~inv.descErr) \/ inv.createOk)
    /\ ProviderCallFailed(inv)
        => /\ pc = "idle" /\ inv.done /\ result.err
           /\ ~inv.wroteStatus
           /\ obj.status = inv.readStatus

\* Describe failed for an object with a recorded, running instance.
C14_Witness ==
    /\ inv.done /\ inv.calledDescribe /\ inv.descErr /\ result = ErrorResult
    /\ obj.status.InstanceID # "" /\ obj.status.State = "running"
    /\ obj.status.PublicIP # ""

(* C15: an invocation that read the object with deletion requested and an
   empty InstanceID, and whose r.Update did not fail, removes the finalizer
   and returns ctrl.Result{}, nil, whether or not a terminate call succeeded. *)
C15_DeleteWithEmptyIdAlwaysReleases ==
    (inv.done /\ inv.readDeleting /\ inv.readStatus.InstanceID = ""
     /\ ~inv.updateFailed)
        => (result = DoneResult /\ inv.wroteObject)

(* C16: creation success.  An invocation whose create succeeded and whose
   status write succeeded leaves in the store the InstanceID, the State and
   the four addresses of the creation result, and returns RequeueAfter 1
   without error. *)
C16_CreateSuccessPersistsResult ==
    (inv.done /\ inv.createOk /\ inv.wroteStatus)
        => /\ obj.status.InstanceID = inv.createdId
           /\ obj.status.InstanceID = "i-" \o ToString(nCreated)
           /\ obj.status.State = "pending"
           /\ obj.status.PublicIP = "pub-ip-" \o ToString(nCreated)
           /\ obj.status.PrivateIP = "priv-ip-" \o ToString(nCreated)
           /\ obj.status.PublicDNS = "pub-dns-" \o ToString(nCreated)
           /\ obj.status.PrivateDNS = "priv-dns-" \o ToString(nCreated)
           /\ result = Directive(FALSE, 1, FALSE)

\* The second instance, created after a drift reset, has been recorded.
C16_Witness ==
    /\ inv.done /\ inv.createOk /\ inv.wroteStatus /\ nCreated = 2
    /\ inv.readStatus.State = "Terminated"
    /\ obj.status.InstanceID = "i-2" /\ obj.status.PublicIP = "pub-ip-2"

(* C17: absent object.  When r.Get reports not-found, Reconcile calls no
   provider, writes nothing and returns ctrl.Result{}, nil; on any other read
   error it returns the error, again without a provider call or a write.
   The step leaves the store and the cloud as they were. *)
C17_AbsentObjectIsNoOp ==
    /\ [](inv.notFound
            => /\ pc = "idle" /\ inv.done /\ result = DoneResult
               /\ ~inv.calledCreate /\ ~inv.calledDescribe /\ ~inv.calledTerminate
               /\ ~inv.wroteObject /\ ~inv.wroteStatus)
    /\ [](inv.getErr
            => /\ pc = "idle" /\ inv.done /\ result = ErrorResult
               /\ ~inv.calledCreate /\ ~inv.calledDescribe /\ ~inv.calledTerminate
               /\ ~inv.wroteObject /\ ~inv.wroteStatus)
    /\ [][(pc = "idle" /\ inv' # inv /\ (inv'.notFound \/ inv'.getErr))
            => (obj' = obj /\ aws' = aws /\ nCreated' = nCreated)]_vars

\* The object was provisioned, deleted and erased; a later invocation
\* found nothing.
C17_Witness ==
    /\ inv.done /\ inv.notFound /\ ~obj.exists /\ nCreated >= 1
    /\ result = DoneResult

(* C18: deletion racing with provisioning.  An instance created by an
   invocation during which the user requested deletion is never live while
   the object is gone from the store. *)
C18_NoOrphanAfterRacingDelete ==
    \A n \in raced : aws[n] \in LiveStates => obj.exists

(* C19: the finalizer token occurs at most once in the persisted list. *)
Occurrences(fs) == Cardinality({i \in 1..Len(fs) : fs[i] = Finalizer})

C19_FinalizerOccursOnce ==
    Occurrences(obj.finalizers) <= 1

(* C20: verification never touches the addresses.  No step of an invocation
   that read a non-deleting object with an id changes the four address
   fields of the persisted status; hence the persisted addresses are always
   those returned by some create (or empty before the first), and while an
   id is recorded they are the ones returned with that id. *)
Addresses(st) == <<st.PublicIP, st.PrivateIP, st.PublicDNS, st.PrivateDNS>>

C20_VerificationKeepsAddresses ==
    /\ [][(pc # "idle" /\ ~inv.readDeleting /\ inv.readStatus.InstanceID # "")
            => Addresses(obj'.status) = Addresses(obj.status)]_vars
    /\ [](\/ Addresses(obj.status) = <<"", "", "", "">>
          \/ \E n \in 1..nCreated :
                Addresses(obj.status) =
                    <<"pub-ip-" \o ToString(n), "priv-ip-" \o ToString(n),
                      "pub-dns-" \o ToString(n), "priv-dns-" \o ToString(n)>>)
    /\ [](\A n \in 1..nCreated :
            obj.status.InstanceID = "i-" \o ToString(n)
                => Addresses(obj.status) =
                    <<"pub-ip-" \o ToString(n), "priv-ip-" \o ToString(n),
                      "pub-dns-" \o ToString(n), "priv-dns-" \o ToString(n)>>)

\* A drift reset was persisted: the id is gone, the addresses of the
\* terminated instance are still in the status.
C20_Witness ==
    /\ inv.done /\ SawDrift(inv) /\ inv.wroteStatus
    /\ obj.status.InstanceID = "" /\ obj.status.PublicIP = "pub-ip-1"

====
